---- MODULE Spec2Model ----
(***************************************************************************)
(* The PomoTimer state machine of src/src/main.rs.                         *)
(*                                                                         *)
(* Time is counted in whole minutes.  An Instant is the Duration since the *)
(* clock's origin (the `instant` crate on the web target wraps a Duration),*)
(* so instants and durations share one range 0..DurationMax, and every     *)
(* unchecked `+` / `+=` on them panics when the sum leaves that range,     *)
(* exactly as core::time::Duration does.  One call reads the clock once.   *)
(***************************************************************************)
EXTENDS Integers, Sequences, FiniteSets, TLC

\* ------------------------------------------------------------- bounds
\* Duration::MAX, scaled down: far beyond every clock reading and every
\* duration that a few adjustments of a few minutes build up.
DurationMax == 1000
\* The furthest the clock is let run.
MaxNow == 10
\* The most increase_duration / decrease_duration calls of a run.
MaxEdits == 2

\* Duration::from_secs(5 * 60), the floor of decrease_duration.
FiveMinutes == 5

\* Arguments of PomoTimer::new: the App's (25m, 5m), a zero timer, and a
\* rest duration chosen independently of the work duration.
NewArgs == {<<25, 5>>, <<0, 0>>, <<25, 10>>}
\* Arguments of increase_duration / decrease_duration.
Deltas == {FiveMinutes, 60, DurationMax}

\* ------------------------------------------------------------- types
\* Option::None of the checked operations.
None == -1

\* enum TimerState
Inactive == <<"Inactive">>
Working == <<"Working">>
Resting == <<"Resting">>
Paused(at) == <<"Paused", at>>

IsPaused(s) == s[1] = "Paused"
PausedAt(s) == s[2]

\* ------------------------------------------------- instants, durations
checked_add(a, b) == IF a + b <= DurationMax THEN a + b ELSE None
checked_sub(a, b) == IF a - b >= 0 THEN a - b ELSE None
checked_duration_since(a, earlier) == IF earlier > a THEN None ELSE a - earlier
unwrap_or(x, default) == IF x = None THEN default ELSE x
\* `a + b` on Instant/Duration: panics on overflow.
Overflows(a, b) == a + b > DurationMax

\* The outcome of one call: the timer it leaves, how often it rang, and
\* whether it panicked part-way.
Ok(t, r) == [timer |-> t, rang |-> r, panic |-> FALSE]
Panic(t) == [timer |-> t, rang |-> 0, panic |-> TRUE]

\* ------------------------------------------------------------ PomoTimer
new(work_duration, rest_duration, n) ==
    [work_duration |-> work_duration,
     rest_duration |-> rest_duration,
     deadline |-> unwrap_or(checked_add(n, work_duration), n),
     state |-> Inactive]

\* time_left() subtracting without the check.
time_left_unchecked(t, n) == t.deadline - n

time_left(t, n) == unwrap_or(checked_duration_since(t.deadline, n), 0)

ring(t) == Ok(t, 1)

\* flip() measuring the new deadline from the old one instead of the clock.
flip_from_deadline(t, n) ==
    LET next == IF t.state = Working THEN Resting ELSE Working
        span == IF t.state = Working THEN t.rest_duration ELSE t.work_duration
        flipped == [t EXCEPT !.state = next]
    IN  IF Overflows(t.deadline, span)
        THEN Panic(flipped)
        ELSE ring([flipped EXCEPT !.deadline = t.deadline + span])

\* flip() ringing only when it leaves a running phase.
flip_quiet_start(t, n) ==
    LET next == IF t.state = Working THEN Resting ELSE Working
        span == IF t.state = Working THEN t.rest_duration ELSE t.work_duration
        flipped == [t EXCEPT !.state = next]
    IN  IF Overflows(n, span)
        THEN Panic(flipped)
        ELSE IF t.state \in {Working, Resting}
        THEN ring([flipped EXCEPT !.deadline = n + span])
        ELSE Ok([flipped EXCEPT !.deadline = n + span], 0)

\* flip() giving the rest the length of the work phase.
flip_work_span(t, n) ==
    LET next == IF t.state = Working THEN Resting ELSE Working
        flipped == [t EXCEPT !.state = next]
    IN  IF Overflows(n, t.work_duration)
        THEN Panic(flipped)
        ELSE ring([flipped EXCEPT !.deadline = n + t.work_duration])

flip(t, n) ==
    LET next == IF t.state = Working THEN Resting ELSE Working
        span == IF t.state = Working THEN t.rest_duration ELSE t.work_duration
        flipped == [t EXCEPT !.state = next]
    IN  IF Overflows(n, span)
        THEN Panic(flipped)
        ELSE ring([flipped EXCEPT !.deadline = n + span])

\* start() that keeps the deadline the Inactive timer had.
start_stale_deadline(t, n) ==
    IF t.state = Inactive
    THEN IF t.work_duration = 0
         THEN Ok(t, 0)
         ELSE Ok([t EXCEPT !.state = Working], 0)
    ELSE IF IsPaused(t.state)
    THEN LET shift == unwrap_or(checked_duration_since(n, PausedAt(t.state)), 0)
         IN  IF Overflows(t.deadline, shift)
             THEN Panic(t)
             ELSE Ok([t EXCEPT !.deadline = t.deadline + shift,
                               !.state = Working], 0)
    ELSE Ok(t, 0)

start(t, n) ==
    IF t.state = Inactive
    THEN IF t.work_duration = 0
         THEN Ok(t, 0)
         ELSE Ok([t EXCEPT !.deadline = unwrap_or(checked_add(n, t.work_duration), n),
                           !.state = Working], 0)
    ELSE IF IsPaused(t.state)
    THEN LET shift == unwrap_or(checked_duration_since(n, PausedAt(t.state)), 0)
         IN  IF Overflows(t.deadline, shift)
             THEN Panic(t)
             ELSE Ok([t EXCEPT !.deadline = t.deadline + shift,
                               !.state = Working], 0)
    ELSE Ok(t, 0)

\* stop() that records the instant whatever the phase.
stop_always(t, n) == Ok([t EXCEPT !.state = Paused(n)], 0)

stop(t, n) ==
    IF t.state \in {Working, Resting}
    THEN Ok([t EXCEPT !.state = Paused(n)], 0)
    ELSE Ok(t, 0)

\* reset() that does not touch a paused timer.
reset_running_only(t) ==
    IF IsPaused(t.state) THEN Ok(t, 0) ELSE Ok([t EXCEPT !.state = Inactive], 0)

reset(t) == Ok([t EXCEPT !.state = Inactive], 0)

\* update() that looks at the deadline but not at the phase.
update_any_phase(t, n) ==
    IF time_left(t, n) = 0 THEN flip(t, n) ELSE Ok(t, 0)

\* update() that ends a work phase but never a rest.
update_work_only(t, n) ==
    IF t.state = Working /\ time_left(t, n) = 0
    THEN flip(t, n)
    ELSE Ok(t, 0)

update(t, n) ==
    IF t.state \in {Working, Resting} /\ time_left(t, n) = 0
    THEN flip(t, n)
    ELSE Ok(t, 0)

\* increase_duration() that leaves rest_duration as it was.
increase_duration_stale_rest(t, increase) ==
    LET duration == unwrap_or(checked_add(t.work_duration, increase), DurationMax)
        shifted == checked_add(t.deadline, increase)
    IN  Ok([t EXCEPT !.work_duration = duration,
                     !.deadline = IF shifted # None THEN shifted ELSE @], 0)

\* increase_duration() that leaves the deadline of the running phase alone.
increase_duration_no_shift(t, increase) ==
    LET duration == unwrap_or(checked_add(t.work_duration, increase), DurationMax)
    IN  Ok([t EXCEPT !.work_duration = duration,
                     !.rest_duration = duration \div 5], 0)

increase_duration(t, increase) ==
    LET duration == unwrap_or(checked_add(t.work_duration, increase), DurationMax)
        shifted == checked_add(t.deadline, increase)
    IN  Ok([t EXCEPT !.work_duration = duration,
                     !.rest_duration = duration \div 5,
                     !.deadline = IF shifted # None THEN shifted ELSE @], 0)

\* decrease_duration() with the floor applied on underflow only.
decrease_duration_no_floor(t, decrease) ==
    LET duration == unwrap_or(checked_sub(t.work_duration, decrease), FiveMinutes)
        shifted == checked_sub(t.deadline, decrease)
    IN  Ok([t EXCEPT !.work_duration = duration,
                     !.rest_duration = duration \div 5,
                     !.deadline = IF shifted # None THEN shifted ELSE @], 0)

decrease_duration(t, decrease) ==
    LET sub == unwrap_or(checked_sub(t.work_duration, decrease), FiveMinutes)
        duration == IF sub < FiveMinutes THEN FiveMinutes ELSE sub
        shifted == checked_sub(t.deadline, decrease)
    IN  Ok([t EXCEPT !.work_duration = duration,
                     !.rest_duration = duration \div 5,
                     !.deadline = IF shifted # None THEN shifted ELSE @], 0)

\* toggle_pause() that pauses an Inactive timer instead of starting it.
toggle_pause_idle_stops(t, n) ==
    IF IsPaused(t.state) THEN start(t, n) ELSE Ok([t EXCEPT !.state = Paused(n)], 0)

toggle_pause(t, n) ==
    IF t.state \in {Working, Resting} THEN stop(t, n) ELSE start(t, n)

\* Display reading a paused timer against the clock, as a running one.
remaining_time_unfrozen(t, n) ==
    IF t.state = Inactive THEN t.work_duration ELSE time_left(t, n)

\* What Display shows: the remaining time of the timer.
remaining_time(t, n) ==
    IF IsPaused(t.state)
    THEN unwrap_or(checked_duration_since(t.deadline, PausedAt(t.state)), 0)
    ELSE IF t.state = Inactive THEN t.work_duration
    ELSE time_left(t, n)

\* ---------------------------------------------------------------- state
VARIABLES
    timer,      \* the PomoTimer value
    now,        \* the reading of Instant::now()
    rang,       \* how often the last step played the bell (ring)
    panicked,   \* a call has panicked: the program is gone
    edits,      \* how many duration adjustments were made
    op,         \* the last call, and its argument
    before,     \* the phase the last call found (history)
    paused_phase, \* the phase stop() found when it paused the timer (history)
    quiet       \* the timer is paused and no call was made since (history)

vars == <<timer, now, rang, panicked, edits, op, before, paused_phase, quiet>>

\* The clock's origin (the page load) lies before the construction.
Init ==
    /\ now = 1
    /\ \E a \in NewArgs : timer = new(a[1], a[2], now)
    /\ rang = 0
    /\ panicked = FALSE
    /\ edits = 0
    /\ op = <<"new">>
    /\ before = "Inactive"
    /\ paused_phase = "None"
    /\ quiet = FALSE

\* One call with outcome r.
Call(name, r) ==
    /\ ~panicked
    /\ timer' = r.timer
    /\ rang' = r.rang
    /\ panicked' = r.panic
    /\ op' = name
    /\ before' = timer.state[1]
    /\ paused_phase' = IF IsPaused(timer.state) THEN paused_phase
                       ELSE IF IsPaused(r.timer.state) THEN timer.state[1]
                       ELSE "None"
    /\ quiet' = (IsPaused(r.timer.state) /\ ~IsPaused(timer.state))
    /\ now' = now

Start == Call(<<"start">>, start(timer, now)) /\ UNCHANGED edits
Stop == Call(<<"stop">>, stop(timer, now)) /\ UNCHANGED edits
Reset == Call(<<"reset">>, reset(timer)) /\ UNCHANGED edits
Update == Call(<<"update">>, update(timer, now)) /\ UNCHANGED edits
Flip == Call(<<"flip">>, flip(timer, now)) /\ UNCHANGED edits
TogglePause == Call(<<"toggle_pause">>, toggle_pause(timer, now)) /\ UNCHANGED edits
IncreaseDuration ==
    /\ edits < MaxEdits
    /\ edits' = edits + 1
    /\ \E d \in Deltas : Call(<<"increase_duration", d>>, increase_duration(timer, d))
DecreaseDuration ==
    /\ edits < MaxEdits
    /\ edits' = edits + 1
    /\ \E d \in Deltas : Call(<<"decrease_duration", d>>, decrease_duration(timer, d))

\* The monotonic clock moves on between calls.
Tick ==
    /\ ~panicked
    /\ now < MaxNow
    /\ now' = now + 1
    /\ op' = <<"tick">>
    /\ rang' = 0
    /\ UNCHANGED <<timer, panicked, edits, before, paused_phase, quiet>>

Next ==
    \/ Start
    \/ Stop
    \/ Reset
    \/ Update
    \/ Flip
    \/ TogglePause
    \/ IncreaseDuration
    \/ DecreaseDuration
    \/ Tick

Spec == Init /\ [][Next]_vars

\* ----------------------------------------------------------- history
\* The last call was update() and it took the timer from one running phase
\* to the other.
FlippedByUpdate ==
    /\ op = <<"update">>
    /\ before \in {"Working", "Resting"}
    /\ timer.state[1] \in {"Working", "Resting"}
    /\ timer.state[1] # before

\* The configured length of the phase the timer is in.
PhaseDuration(t) == IF t.state = Resting THEN t.rest_duration ELSE t.work_duration

\* -------------------------------------------------------------- claims

\* C1: a start() on a timer paused at t1 with remaining time R, at clock t2,
\* shifts the deadline forward by exactly t2 - t1 and leaves the remaining
\* time at R.
C1_ResumeKeepsRemaining ==
    [][(IsPaused(timer.state) /\ quiet /\ op' = <<"start">>)
        => /\ timer'.deadline = timer.deadline + (now - PausedAt(timer.state))
           /\ remaining_time(timer', now') = remaining_time(timer, now)]_vars

\* C2: a start() or toggle_pause() on a paused timer puts it back in the
\* phase it was paused in.
C2_ResumeRestoresPhase ==
    (before = "Paused" /\ op[1] \in {"start", "toggle_pause"})
        => timer.state[1] = paused_phase

\* C3: rest_duration is work_duration / 5 in every reachable state, from
\* construction on.
C3_RestIsFifthOfWork == timer.rest_duration = timer.work_duration \div 5

\* C4: right after every increase_duration or decrease_duration call,
\* rest_duration is work_duration / 5.
C4_RestSyncedAfterAdjust ==
    op[1] \in {"increase_duration", "decrease_duration"}
        => timer.rest_duration = timer.work_duration \div 5

C4_Witness ==
    /\ op = <<"increase_duration", DurationMax>>
    /\ IsPaused(timer.state)
    /\ timer.work_duration = DurationMax
    /\ timer.rest_duration = DurationMax \div 5

\* C5: after any decrease_duration call work_duration is at least five
\* minutes, and decrease_duration(60m) on a 5m timer leaves work_duration at
\* 5m and rest_duration at 1m.
C5_DecreaseKeepsFloor ==
    [][op'[1] = "decrease_duration"
        => /\ timer'.work_duration >= FiveMinutes
           /\ (timer.work_duration = 5 /\ op'[2] = 60)
                => (timer'.work_duration = 5 /\ timer'.rest_duration = 1)]_vars

C5_Witness ==
    /\ op = <<"decrease_duration", 60>>
    /\ edits = 2
    /\ timer.work_duration = 5
    /\ timer.rest_duration = 1
    /\ timer.state = Working

\* C6: update() changes nothing unless the timer is Working or Resting with
\* no time left.
C6_UpdateIdleUnlessExpired ==
    [][(op' = <<"update">>
        /\ ~(timer.state \in {Working, Resting} /\ remaining_time(timer, now) = 0))
        => (timer' = timer /\ rang' = 0 /\ ~panicked')]_vars

C6_Witness ==
    /\ op = <<"update">>
    /\ IsPaused(timer.state)
    /\ now > timer.deadline + 3
    /\ remaining_time(timer, now) = 0

\* C7 (as stated): an update() right after an update() that flipped, at the
\* same clock value, does not flip again.
C7_RepeatedUpdateDoesNotFlip ==
    [][(FlippedByUpdate /\ op' = <<"update">>) => timer'.state = timer.state]_vars

\* C7 (amended): one update() rings at most once and moves the timer at most
\* one phase on; when it flips and returns, the deadline is now + the new
\* phase's duration; a repeated update() at the same clock value leaves a
\* phase of positive duration alone.
C7_UpdateFlipsOnce ==
    [][op' = <<"update">>
        => /\ rang' <= 1
           /\ (timer'.state # timer.state)
                => /\ timer.state \in {Working, Resting}
                   /\ timer'.state = (IF timer.state = Working THEN Resting ELSE Working)
                   /\ rang' = 1 \/ panicked'
                   /\ ~panicked' => timer'.deadline = now + PhaseDuration(timer')
           /\ (FlippedByUpdate /\ PhaseDuration(timer) > 0) => timer' = timer]_vars

C7_Witness ==
    /\ FlippedByUpdate
    /\ rang = 1
    /\ timer.state = Resting
    /\ timer.rest_duration > 0
    /\ timer.deadline = now + timer.rest_duration
    /\ now > 6

\* C8: update() with no time left takes Working to Resting with deadline =
\* now + rest_duration, and Resting to Working with deadline = now +
\* work_duration.
C8_UpdateStartsNextPhase ==
    [][(op' = <<"update">> /\ timer.state \in {Working, Resting}
        /\ time_left(timer, now) = 0)
        => IF timer.state = Working
           THEN timer'.state = Resting /\ timer'.deadline = now + timer.rest_duration
           ELSE timer'.state = Working /\ timer'.deadline = now + timer.work_duration]_vars

\* C9 (as stated): the alert fires, once, in exactly the steps that
\* take the timer from Working to Resting or from Resting to Working.
C9_AlertIffPhaseFlip ==
    [][/\ rang' \in {0, 1}
       /\ (rang' = 1)
            <=> \/ (timer.state = Working /\ timer'.state = Resting)
                \/ (timer.state = Resting /\ timer'.state = Working)]_vars

\* C9 (amended): the alert fires, once, in exactly the steps in
\* which flip() runs to its end: a flip() call from any phase, or an update()
\* of a Working or Resting timer with no time left.
C9_AlertIffFlipRuns ==
    [][/\ rang' \in {0, 1}
       /\ (rang' = 1)
            <=> /\ ~panicked'
                /\ \/ op' = <<"flip">>
                   \/ /\ op' = <<"update">>
                      /\ timer.state \in {Working, Resting}
                      /\ time_left(timer, now) = 0
       /\ (rang' = 1)
            => /\ timer'.state \in {Working, Resting}
               /\ timer'.deadline = now + PhaseDuration(timer')]_vars

C9_Witness ==
    /\ op = <<"flip">>
    /\ before = "Inactive"
    /\ timer.state = Working
    /\ rang = 1
    /\ ~panicked

\* C10: no call terminates abnormally.
C10_NoPanic == ~panicked


\* C11: the remaining time shown is never negative: while Working or Resting
\* it is max(0, deadline - now), and it is zero when the deadline lies before
\* the recorded pause instant.
C11_RemainingNeverNegative ==
    /\ remaining_time(timer, now) >= 0
    /\ timer.state \in {Working, Resting}
        => remaining_time(timer, now)
            = (IF timer.deadline > now THEN timer.deadline - now ELSE 0)
    /\ (IsPaused(timer.state) /\ timer.deadline < PausedAt(timer.state))
        => remaining_time(timer, now) = 0

C11_Witness ==
    /\ timer.state \in {Working, Resting}
    /\ timer.deadline + 2 < now
    /\ remaining_time(timer, now) = 0

\* C12: while Paused the remaining time shown is deadline - paused_at (as a
\* duration: zero when the deadline lies before the pause instant) and neither
\* the clock nor update() changes it; while Inactive it is work_duration.
C12_PausedRemainingFrozen ==
    /\ timer.state = Inactive => remaining_time(timer, now) = timer.work_duration
    /\ [][/\ IsPaused(timer'.state)
               => remaining_time(timer', now')
                   = (IF timer'.deadline > PausedAt(timer'.state)
                      THEN timer'.deadline - PausedAt(timer'.state) ELSE 0)
          /\ timer'.state = Inactive
               => remaining_time(timer', now') = timer'.work_duration
          /\ (IsPaused(timer.state) /\ op' \in {<<"tick">>, <<"update">>})
               => /\ IsPaused(timer'.state)
                  /\ remaining_time(timer', now') = remaining_time(timer, now)]_vars

C12_Witness ==
    /\ op = <<"update">>
    /\ IsPaused(timer.state)
    /\ now > timer.deadline
    /\ now > PausedAt(timer.state) + 3
    /\ remaining_time(timer, now) = 4

\* C13 (as stated): start() leaves an Inactive timer with work_duration 0 as
\* it is, and makes any other Inactive timer Working with deadline = now +
\* work_duration.
C13_StartFromInactive ==
    [][(timer.state = Inactive /\ op' = <<"start">>)
        => IF timer.work_duration = 0
           THEN timer' = timer
           ELSE timer' = [timer EXCEPT !.state = Working,
                                       !.deadline = now + timer.work_duration]]_vars

\* C13 (amended): as stated, with deadline = now where now + work_duration
\* is past the largest instant.
C13_StartFromInactiveClamped ==
    [][(timer.state = Inactive /\ op' = <<"start">>)
        => /\ ~panicked'
           /\ IF timer.work_duration = 0
              THEN timer' = timer
              ELSE timer' = [timer EXCEPT
                    !.state = Working,
                    !.deadline = IF now + timer.work_duration <= DurationMax
                                 THEN now + timer.work_duration ELSE now]]_vars

C13_Witness ==
    /\ op = <<"start">>
    /\ before = "Inactive"
    /\ timer.state = Working
    /\ now > 3
    /\ timer.work_duration = 25
    /\ timer.deadline = now + 25

\* The instant the remaining time shown is measured from.
ShownFrom(t, n) == IF IsPaused(t.state) THEN PausedAt(t.state) ELSE n

\* C14 (as stated): increase_duration(delta) / decrease_duration(delta) on a
\* Working, Resting or Paused timer changes the remaining time by exactly
\* delta, clamped at zero on decrease.
C14_AdjustShiftsRemaining ==
    [][/\ (timer.state # Inactive /\ op'[1] = "increase_duration")
            => remaining_time(timer', now') = remaining_time(timer, now) + op'[2]
       /\ (timer.state # Inactive /\ op'[1] = "decrease_duration")
            => remaining_time(timer', now')
                = (IF remaining_time(timer, now) > op'[2]
                   THEN remaining_time(timer, now) - op'[2] ELSE 0)]_vars

\* C14 (amended): the deadline of the phase in progress moves by exactly
\* delta when the moved instant exists and stays where it is otherwise; the
\* remaining time then grows by delta (if the deadline had not passed) or
\* shrinks by delta, clamped at zero; it is never recomputed from the new
\* duration.
C14_AdjustShiftsDeadline ==
    [][/\ (timer.state # Inactive /\ op'[1] = "increase_duration")
            => LET moved == timer.deadline + op'[2] <= DurationMax
               IN  /\ timer'.state = timer.state
                   /\ timer'.deadline
                        = (IF moved THEN timer.deadline + op'[2] ELSE timer.deadline)
                   /\ (moved /\ timer.deadline >= ShownFrom(timer, now))
                        => remaining_time(timer', now')
                            = remaining_time(timer, now) + op'[2]
                   /\ ~moved
                        => remaining_time(timer', now') = remaining_time(timer, now)
       /\ (timer.state # Inactive /\ op'[1] = "decrease_duration")
            => LET moved == timer.deadline >= op'[2]
               IN  /\ timer'.state = timer.state
                   /\ timer'.deadline
                        = (IF moved THEN timer.deadline - op'[2] ELSE timer.deadline)
                   /\ moved
                        => remaining_time(timer', now')
                            = (IF remaining_time(timer, now) > op'[2]
                               THEN remaining_time(timer, now) - op'[2] ELSE 0)
                   /\ ~moved
                        => remaining_time(timer', now') = remaining_time(timer, now)]_vars

C14_Witness ==
    /\ op = <<"increase_duration", 5>>
    /\ IsPaused(timer.state)
    /\ now > PausedAt(timer.state)
    /\ timer.work_duration = 30
    /\ remaining_time(timer, now) = 30 - (PausedAt(timer.state) - 1)
    /\ PausedAt(timer.state) > 2

\* C15 (as stated): reset() from any phase makes the timer Inactive, keeps
\* both durations and shows the full work_duration; the start() that follows
\* begins a Working phase with exactly work_duration left.
C15_ResetThenStartIsFull ==
    [][/\ op' = <<"reset">>
            => /\ timer'.state = Inactive
               /\ timer'.work_duration = timer.work_duration
               /\ timer'.rest_duration = timer.rest_duration
               /\ remaining_time(timer', now') = timer.work_duration
       /\ (op = <<"reset">> /\ op' = <<"start">>)
            => /\ timer'.state = Working
               /\ remaining_time(timer', now') = timer.work_duration]_vars

\* C15 (amended): reset() does the above from any phase; the start() that
\* follows begins a Working phase with exactly work_duration left when
\* work_duration > 0 and now + work_duration exists, begins it with nothing
\* left when that sum overflows, and does nothing when work_duration = 0.
C15_ResetDiscardsProgress ==
    [][/\ op' = <<"reset">>
            => /\ timer'.state = Inactive
               /\ timer'.work_duration = timer.work_duration
               /\ timer'.rest_duration = timer.rest_duration
               /\ remaining_time(timer', now') = timer.work_duration
               /\ ~panicked'
       /\ (op = <<"reset">> /\ op' = <<"start">>)
            => /\ ~panicked'
               /\ timer.work_duration = 0 => timer' = timer
               /\ timer.work_duration > 0
                    => /\ timer'.state = Working
                       /\ remaining_time(timer', now')
                            = (IF now + timer.work_duration <= DurationMax
                               THEN timer.work_duration ELSE 0)]_vars

C15_Witness ==
    /\ op = <<"reset">>
    /\ before = "Paused"
    /\ timer.state = Inactive
    /\ timer.deadline < now
    /\ timer.work_duration = 25
    /\ remaining_time(timer, now) = 25

\* C16: stop() on a Working or Resting timer records the current instant
\* in Paused and changes nothing else; stop() on a Paused or Inactive timer
\* and start() on a Working or Resting timer change nothing at all, so a
\* second stop() keeps the recorded pause instant.
C16_StopRecordsInstantOnce ==
    [][/\ (op' = <<"stop">> /\ timer.state \in {Working, Resting})
            => /\ timer' = [timer EXCEPT !.state = Paused(now)]
               /\ rang' = 0 /\ ~panicked'
       /\ (op' = <<"stop">> /\ timer.state \notin {Working, Resting})
            => /\ timer' = timer
               /\ rang' = 0 /\ ~panicked'
       /\ (op' = <<"start">> /\ timer.state \in {Working, Resting})
            => /\ timer' = timer
               /\ rang' = 0 /\ ~panicked']_vars

C16_Witness ==
    /\ op = <<"stop">>
    /\ before = "Paused"
    /\ IsPaused(timer.state)
    /\ PausedAt(timer.state) < now

\* C17 (as stated): toggle_pause() acts as stop() on a Working or Resting
\* timer and as start() on a Paused or Inactive one, and so takes a running
\* or idle timer to Paused or Working: never leaves it where it was.
C17_ToggleAlwaysToggles ==
    [][op' = <<"toggle_pause">>
        => /\ timer.state \in {Working, Resting}
                => /\ timer' = stop(timer, now).timer
                   /\ IsPaused(timer'.state)
           /\ timer.state \notin {Working, Resting}
                => /\ timer' = start(timer, now).timer
                   /\ timer'.state = Working]_vars

\* C17 (amended): toggle_pause() acts as stop() on a Working or Resting
\* timer, which becomes Paused at the current instant, and as start() on a
\* Paused or Inactive one, with start()'s outcomes: a Paused timer becomes
\* Working unless the resume fails, an Inactive one becomes Working unless
\* its work_duration is zero, and then it stays Inactive.
C17_ToggleIsStopOrStart ==
    [][op' = <<"toggle_pause">>
        => /\ timer.state \in {Working, Resting}
                => /\ timer' = stop(timer, now).timer
                   /\ timer'.state = Paused(now)
                   /\ ~panicked'
           /\ timer.state \notin {Working, Resting}
                => /\ timer' = start(timer, now).timer
                   /\ panicked' = start(timer, now).panic
                   /\ (IsPaused(timer.state) /\ ~panicked') => timer'.state = Working
                   /\ timer.state = Inactive
                        => timer'.state
                            = (IF timer.work_duration = 0 THEN Inactive ELSE Working)
           /\ rang' = 0]_vars

C17_Witness ==
    /\ op = <<"toggle_pause">>
    /\ before = "Resting"
    /\ timer.state = Paused(now)
    /\ now > 1

\* ------------------------------------------------ the unattended timer
\* Timers short enough for their phases to end within MaxNow, and the
\* timer of the App, whose phases do not.
LiveArgs == {<<25, 5>>, <<5, 1>>, <<2, 1>>, <<3, 0>>, <<4, 2>>}

InitLive ==
    /\ now = 1
    /\ \E a \in LiveArgs : timer = new(a[1], a[2], now)
    /\ rang = 0
    /\ panicked = FALSE
    /\ edits = 0
    /\ op = <<"new">>
    /\ before = "Inactive"
    /\ paused_phase = "None"
    /\ quiet = FALSE

\* The user starts the timer and leaves it alone: the page keeps rendering
\* (update) and the clock keeps running.
NextLive ==
    \/ Start
    \/ Update
    \/ Tick

SpecLive ==
    /\ InitLive
    /\ [][NextLive]_vars
    /\ WF_vars(Tick)
    /\ WF_vars(Update)

\* C18: a Working or Resting timer that is left alone while the clock runs
\* and update() keeps being called eventually flips to the other phase
\* (checked for the phases that end within MaxNow), and update() only ever
\* takes Working to Resting and Resting to Working.
C18_PhasesAlternate ==
    /\ []((timer.state = Working /\ timer.deadline <= MaxNow)
            => <>(timer.state = Resting))
    /\ []((timer.state = Resting /\ timer.deadline <= MaxNow)
            => <>(timer.state = Working))
    /\ [][op' = <<"update">>
            => \/ timer' = timer
               \/ timer.state = Working /\ timer'.state = Resting
               \/ timer.state = Resting /\ timer'.state = Working]_vars

C18_Witness ==
    /\ FlippedByUpdate
    /\ before = "Resting"
    /\ timer.state = Working
    /\ timer.rest_duration > 0
    /\ timer.deadline = now + timer.work_duration
    /\ now > 3

\* C19: flip() from any phase plays the alert once and starts a full
\* phase: Resting with deadline = now + rest_duration from Working, and
\* Working with deadline = now + work_duration from Resting, Inactive and
\* Paused.
C19_FlipStartsFullPhase ==
    [][op' = <<"flip">>
        => /\ rang' = 1
           /\ ~panicked'
           /\ IF timer.state = Working
              THEN /\ timer'.state = Resting
                   /\ timer'.deadline = now + timer.rest_duration
              ELSE /\ timer'.state = Working
                   /\ timer'.deadline = now + timer.work_duration]_vars

\* ------------------------------------- timers with a fifth of rest
\* Timers constructed with rest_duration = work_duration / 5.
FifthArgs == {<<25, 5>>, <<0, 0>>, <<5, 1>>}

InitFifth ==
    /\ now = 1
    /\ \E a \in FifthArgs : timer = new(a[1], a[2], now)
    /\ rang = 0
    /\ panicked = FALSE
    /\ edits = 0
    /\ op = <<"new">>
    /\ before = "Inactive"
    /\ paused_phase = "None"
    /\ quiet = FALSE

SpecFifth == InitFifth /\ [][Next]_vars

\* The remaining time shown is within the configured length of the phase.
InBound(t, n) == remaining_time(t, n) <= PhaseDuration(t)

\* C20 (as stated): for a timer constructed with rest_duration =
\* work_duration / 5, the remaining time of a Working phase never exceeds
\* work_duration and that of a Resting phase never exceeds rest_duration,
\* whatever adjustments were made in the phase.
C20_RemainingWithinPhase ==
    timer.state \in {Working, Resting} => InBound(timer, now)

\* C20 (amended): for such a timer, every call that begins a phase leaves
\* the remaining time within the phase's configured duration, every step
\* other than an adjustment keeps it there, and so does an adjustment of a
\* Working phase whose deadline moves with it.
C20_BoundKeptBetweenAdjustments ==
    /\ timer.state = Inactive => InBound(timer, now)
    /\ [][/\ (\/ op' = <<"flip">>
              \/ op' \in {<<"start">>, <<"toggle_pause">>} /\ timer.state = Inactive
              \/ op' = <<"update">> /\ timer'.state # timer.state)
                => InBound(timer', now')
          /\ (InBound(timer, now)
              /\ op'[1] \notin {"increase_duration", "decrease_duration"})
                => InBound(timer', now')
          /\ (InBound(timer, now) /\ timer.state = Working
              /\ op'[1] \in {"increase_duration", "decrease_duration"}
              /\ timer'.deadline # timer.deadline)
                => InBound(timer', now')]_vars

C20_Witness ==
    /\ op = <<"update">>
    /\ before = "Working"
    /\ timer.state = Resting
    /\ edits > 0
    /\ timer.rest_duration = 6
    /\ remaining_time(timer, now) = 6

====
